---- MODULE Spec2Model ----
(***************************************************************************)
(* State-machine model of tiktok_comments_termux.py: main() reads          *)
(* links.txt, loads the credentials, and for every link runs               *)
(* fetch_comments (which calls fetch_replies) and save_to_database.        *)
(* The program is single-threaded; pc is its position.  Every HTTP         *)
(* response is an input chosen by the server.                              *)
(***************************************************************************)
EXTENDS Integers, Sequences, FiniteSets, TLC

\* ------------------------------------------------------------------ bounds
\* MAX_COMMENTS is drawn from 0..MaxM
MaxM == 2
\* BATCH_SIZE (the largest top-level page the server sends) is drawn from
\* 1..MaxBatch
MaxBatch == 2
\* links.txt holds at most MaxLines lines
MaxLines == 2
\* a link of the URL pool has at most MaxUrlLen tokens
MaxUrlLen == 5

\* ------------------------------------------------------------- small helpers
Max(a, b) == IF a >= b THEN a ELSE b

IsPrefix(s, t) == Len(s) <= Len(t) /\ SubSeq(t, 1, Len(s)) = s

\* Python's str() of an integer id
Str(n) == ToString(n)

\* the comment ids the server uses
Cids == {1, 2}

CidStrs == {Str(n) : n \in Cids}

\* ------------------------------------------------------------------ URLs
\* A line of links.txt is a sequence of tokens: "/" "?" " " are the
\* characters, "video" the literal word, "1" "2" digits, "a" any other text.
Digits == {"1", "2"}

RECURSIVE DigitRun(_, _)
\* the maximal run of digits of u starting at position i  (\d+ is greedy)
DigitRun(u, i) ==
    IF i <= Len(u) /\ u[i] \in Digits THEN <<u[i]>> \o DigitRun(u, i + 1) ELSE <<>>

\* positions where the pattern /video/(\d+) matches
VideoMatches(u) ==
    {i \in 1..Len(u) : /\ i + 3 <= Len(u)
                       /\ u[i] = "/" /\ u[i + 1] = "video" /\ u[i + 2] = "/"
                       /\ u[i + 3] \in Digits}

Min(S) == CHOOSE x \in S : \A y \in S : x <= y

BeforeQueryKept(u) == u

\* url.split("?")[0]
BeforeQuery(u) ==
    LET qs == {i \in 1..Len(u) : u[i] = "?"}
    IN  IF qs = {} THEN u ELSE SubSeq(u, 1, Min(qs) - 1)

RECURSIVE RStrip(_, _)
\* s.rstrip(ch)
RStrip(s, ch) ==
    IF Len(s) > 0 /\ s[Len(s)] = ch THEN RStrip(SubSeq(s, 1, Len(s) - 1), ch) ELSE s

RECURSIVE LStrip(_, _)
LStrip(s, ch) ==
    IF Len(s) > 0 /\ s[1] = ch THEN LStrip(Tail(s), ch) ELSE s

\* s.split("/")[-1]
LastSegment(s) ==
    LET sl == {i \in 1..Len(s) : s[i] = "/"}
    IN  IF sl = {} THEN s
        ELSE SubSeq(s, (CHOOSE i \in sl : \A j \in sl : j <= i) + 1, Len(s))

\* str.isdigit()
IsDigit(s) == Len(s) > 0 /\ \A i \in 1..Len(s) : s[i] \in Digits

\* None is the empty sequence: main only tests "not aweme_id", and neither
\* branch can return an empty string
NoId == <<>>

extract_aweme_id(url) ==
    IF VideoMatches(url) # {}
    THEN DigitRun(url, Min(VideoMatches(url)) + 3)
    ELSE LET tail == LastSegment(RStrip(BeforeQuery(url), "/"))
         IN  IF IsDigit(tail) THEN tail ELSE NoId

\* line.strip() of a line of links.txt (whitespace is the token " ")
Strip(line) == RStrip(LStrip(line, " "), " ")

\* links = [line.strip() for line in f if line.strip()]
ReadLinks(lines) ==
    LET stripped == [i \in 1..Len(lines) |-> Strip(lines[i])]
    IN  SelectSeq(stripped, LAMBDA l : l # <<>>)

\* ------------------------------------------------------------ credentials
\* Optional values (Python's None)
NoneV == [none |-> TRUE]
SomeV(x) == [none |-> FALSE, val |-> x]

\* A cookie jar is a function from cookie names to values
EmptyJar == [n \in {} |-> ""]
Put(jar, n, v) == [x \in (DOMAIN jar) \cup {n} |-> IF x = n THEN v ELSE jar[x]]

\* Python truthiness of an optional jar and of an optional string
TruthyJar(o) == ~o.none /\ DOMAIN o.val # {}
TruthyStr(o) == ~o.none /\ o.val # ""

\* A file that does not exist
Absent == [exists |-> FALSE]

\* A key a JSON object does not have (dict.get gives None)
Missing == "<missing>"

\* A cookie header is the sequence of its ";"-separated parts.  blank: the
\* part strips to nothing; eq: it holds "="; name, value: the stripped texts
\* on both sides of the first "=".
RECURSIVE ParseParts(_, _)
ParseParts(parts, jar) ==
    IF parts = <<>> THEN jar
    ELSE LET part == Head(parts)
         IN  IF part.blank \/ ~part.eq
             THEN ParseParts(Tail(parts), jar)
             ELSE ParseParts(Tail(parts), Put(jar, part.name, part.value))

_parse_cookie_header(header) == ParseParts(header, EmptyJar)

RECURSIVE JarOfDict(_, _)
\* the object shape of cookies.json: {str(k): str(v)}, a null value included
JarOfDict(items, jar) ==
    IF items = <<>> THEN jar
    ELSE LET item == Head(items)
         IN  JarOfDict(Tail(items),
                       Put(jar, item.name,
                           IF item.value = Missing THEN "None" ELSE item.value))

RECURSIVE JarOfList(_, _)
\* the array shape of cookies.json: items lacking a name or a value are skipped
JarOfList(items, jar) ==
    IF items = <<>> THEN jar
    ELSE LET item == Head(items)
         IN  IF item.name # Missing /\ item.value # Missing
             THEN JarOfList(Tail(items), Put(jar, item.name, item.value))
             ELSE JarOfList(Tail(items), jar)

\* f is the content of a cookies.json candidate: shape "dict" or "list" with
\* its items, or shape "bad" for a file json.load rejects, a JSON scalar, or
\* an array holding a non-object.
_load_cookies_from_json(f) ==
    IF ~f.exists THEN NoneV
    ELSE IF f.shape = "dict" THEN SomeV(JarOfDict(f.items, EmptyJar))
    ELSE IF f.shape = "list" THEN SomeV(JarOfList(f.items, EmptyJar))
    ELSE NoneV

\* f is the content of a curl.txt candidate: hasCookie/hasUa say whether the
\* regex matched, cookie/ua are the matched header texts
_extract_from_curl_txt(f) ==
    IF ~f.exists THEN [cookies |-> NoneV, ua |-> NoneV]
    ELSE [cookies |-> IF f.hasCookie THEN SomeV(_parse_cookie_header(f.cookie)) ELSE NoneV,
          ua |-> IF f.hasUa THEN SomeV(f.ua) ELSE NoneV]

DefaultUA == "Mozilla/5.0 (Linux; Android 13; Pixel 5)"

\* lines 105-112: the first cookies.json candidate with a non-empty jar
JarFromJson(files) ==
    IF TruthyJar(_load_cookies_from_json(files.json1))
    THEN _load_cookies_from_json(files.json1)
    ELSE IF TruthyJar(_load_cookies_from_json(files.json2))
    THEN _load_cookies_from_json(files.json2)
    ELSE NoneV

JarFromTxtAlways(files, jar) ==
    IF files.txt1.exists /\ DOMAIN _parse_cookie_header(files.txt1.parts) # {}
    THEN SomeV(_parse_cookie_header(files.txt1.parts))
    ELSE IF files.txt2.exists
    THEN SomeV(_parse_cookie_header(files.txt2.parts))
    ELSE IF files.txt1.exists
    THEN SomeV(_parse_cookie_header(files.txt1.parts))
    ELSE jar

\* lines 115-127: cookies.txt candidates, read only when jar is None; an
\* existing file sets jar even when it parses to nothing
JarFromTxt(files, jar) ==
    IF ~jar.none THEN jar
    ELSE IF files.txt1.exists /\ DOMAIN _parse_cookie_header(files.txt1.parts) # {}
    THEN SomeV(_parse_cookie_header(files.txt1.parts))
    ELSE IF files.txt2.exists
    THEN SomeV(_parse_cookie_header(files.txt2.parts))
    ELSE IF files.txt1.exists
    THEN SomeV(_parse_cookie_header(files.txt1.parts))
    ELSE jar

\* lines 130-137: curl.txt candidates, read only when jar is None or empty;
\* the result holds jar and ua_from_curl (the last one assigned)
FromCurl(files, jar) ==
    IF TruthyJar(jar) THEN [jar |-> jar, ua_from_curl |-> NoneV]
    ELSE LET c1 == _extract_from_curl_txt(files.curl1)
             c2 == _extract_from_curl_txt(files.curl2)
         IN  IF TruthyJar(c1.cookies) THEN [jar |-> c1.cookies, ua_from_curl |-> c1.ua]
             ELSE IF TruthyJar(c2.cookies) THEN [jar |-> c2.cookies, ua_from_curl |-> c2.ua]
             ELSE [jar |-> jar, ua_from_curl |-> c2.ua]

\* lines 145-154: ua.txt candidates; text is the stripped content
UaFromFiles(files) ==
    IF files.ua1.exists /\ files.ua1.text # "" THEN SomeV(files.ua1.text)
    ELSE IF files.ua2.exists THEN SomeV(files.ua2.text)
    ELSE IF files.ua1.exists THEN SomeV(files.ua1.text)
    ELSE NoneV

CookiesNeverMissing(jar) == FALSE

\* line 139: if not jar
CookiesMissing(jar) == ~TruthyJar(jar)

\* load_cookies_and_ua: raised says whether RuntimeError is raised
load_cookies_and_ua(files) ==
    LET c  == FromCurl(files, JarFromTxt(files, JarFromJson(files)))
        u0 == UaFromFiles(files)
        u1 == IF u0.none /\ TruthyStr(c.ua_from_curl) THEN c.ua_from_curl ELSE u0
        u2 == IF u1.none THEN DefaultUA ELSE u1.val
    IN  IF CookiesMissing(c.jar)
        THEN [raised |-> TRUE, jar |-> EmptyJar, ua |-> ""]
        ELSE [raised |-> FALSE, jar |-> IF c.jar.none THEN EmptyJar ELSE c.jar.val, ua |-> u2]

\* ------------------------------------------------------------------ server
\* The server is the input of the run.  Its JSON bodies are well typed: a
\* body that parses is an object whose fields, when present, have the types
\* the code reads them with.  Writing to OUTPUT_FILE succeeds.
\* Cursor values the server puts in a response (NoneV: no "cursor" key)
CursorVals == {NoneV, SomeV(7)}

\* reply_comment_total (NoneV: missing or null) and the number of inlined
\* replies (len of reply_comment) of a page entry
ReplyFields ==
    {[reply_comment_total |-> NoneV, inline |-> 0],
     [reply_comment_total |-> SomeV(1), inline |-> 0],
     [reply_comment_total |-> SomeV(1), inline |-> 1]}

\* The entries of the "comments" array of a top-level page, ids 1..n
Entries(n) ==
    {[cid |-> c, reply_comment_total |-> f.reply_comment_total, inline |-> f.inline] :
        c \in 1..n, f \in ReplyFields}

SeqsUpTo(S, n) == UNION {[1..k -> S] : k \in 0..n}

\* has_more and cursor of a response: a cursor comes with has_more only
Paging == {[has_more |-> FALSE, cursor |-> NoneV]}
          \cup [has_more : {TRUE}, cursor : CursorVals]

\* Responses to a top-level request from a server that uses ids 1..n and
\* honours count = batch.  net "error": the request raises
\* (requests.RequestException); status 200 stands for every status but 403;
\* json FALSE: r.json() raises; a missing or null "comments" is the empty
\* page; has_more is the truthiness of the field.
TopResponses(n, batch) ==
    {[net |-> "error", status |-> 200, json |-> FALSE, comments |-> <<>>,
      has_more |-> FALSE, cursor |-> NoneV]}
    \cup [net : {"ok"}, status : {200, 403}, json : {FALSE}, comments : {<<>>},
          has_more : {FALSE}, cursor : {NoneV}]
    \cup {[net |-> "ok", status |-> st, json |-> TRUE, comments |-> p,
           has_more |-> g.has_more, cursor |-> g.cursor] :
            st \in {200, 403}, p \in SeqsUpTo(Entries(n), batch), g \in Paging}

\* Responses to a reply request, k requests of the stream already answered,
\* from a server that uses ids 1..n, sends reply pages of at most rbatch ids
\* and answers a stream at most rpages times.
ReplyResponses(n, rbatch, rpages, k) ==
    {[net |-> "error", json |-> FALSE, comments |-> <<>>, has_more |-> FALSE,
      cursor |-> NoneV]}
    \cup {[net |-> "ok", json |-> FALSE, comments |-> <<>>, has_more |-> FALSE,
           cursor |-> NoneV]}
    \cup {[net |-> "ok", json |-> TRUE, comments |-> p,
           has_more |-> g.has_more, cursor |-> g.cursor] :
            p \in SeqsUpTo(1..n, rbatch),
            g \in {x \in Paging : x.has_more => k + 1 < rpages}}

\* ------------------------------------------------------- fetch helpers
ForbiddenIgnored(r) == FALSE

\* line 266
Forbidden(r) == r.status = 403

\* comment_obj["reply_count"] or 0
OrZero(o) == IF o.none THEN 0 ELSE o.val

TriggersAtLeast(c) == OrZero(c.reply_comment_total) >= c.inline

\* lines 299-302: total_replies > inline_count
Triggers(c) == OrZero(c.reply_comment_total) > c.inline

LoopEndsOnMaxOnly(has_more, total, max) == total >= max

LoopEndsOnNoMoreOnly(has_more, total, max) == ~has_more

\* line 309
LoopEnds(has_more, total, max) == ~has_more \/ total >= max

CursorAlwaysZero(r) == Str(0)

\* str(data.get("cursor", 0))
CursorOf(r) == IF r.cursor.none THEN Str(0) ELSE Str(r.cursor.val)

\* a top-level Comment Record (lines 288-295) and a Reply Record (231-239);
\* text, author and likes are carried through unread and are left out
CommentObj(cid) == [cid |-> cid]

ReplyObjOwnParent(rid, parent) == [cid |-> rid, parent_cid |-> rid]

ReplyObj(rid, parent) == [cid |-> rid, parent_cid |-> parent]

IsReply(rec) == "parent_cid" \in DOMAIN rec

TopLevel(recs) == SelectSeq(recs, LAMBDA rec : ~IsReply(rec))

\* lines 215-222: r.json() raises, or "comments" is missing, null or empty
ReplyUnusable(r) == ~r.json \/ r.comments = <<>>

ReplyNeverLast(r) == FALSE

\* line 242: if not data.get("has_more")
ReplyLast(r) == ~r.has_more

ExtendNothing(list, reps) == list

\* line 304: all_comments.extend(replies)
Extend(list, reps) == list \o reps

RECURSIVE AddRepliesNewestFirst(_, _, _, _)
AddRepliesNewestFirst(items, reps, seen, parent) ==
    IF items = <<>> THEN [replies |-> reps, seen_ids |-> seen]
    ELSE LET rid == Str(Head(items))
         IN  IF rid \in seen
             THEN AddRepliesNewestFirst(Tail(items), reps, seen, parent)
             ELSE AddRepliesNewestFirst(Tail(items), <<ReplyObj(rid, parent)>> \o reps,
                                        seen \cup {rid}, parent)

RECURSIVE AddReplies(_, _, _, _)
\* lines 224-240: the for loop of fetch_replies over one page
AddReplies(items, reps, seen, parent) ==
    IF items = <<>> THEN [replies |-> reps, seen_ids |-> seen]
    ELSE LET rid == Str(Head(items))
         IN  IF rid \in seen
             THEN AddReplies(Tail(items), reps, seen, parent)
             ELSE AddReplies(Tail(items), Append(reps, ReplyObj(rid, parent)),
                             seen \cup {rid}, parent)

\* ------------------------------------------------------------- persistence
\* One appended block: the link line, the count line and one line per record
Block(link, recs) == [link |-> link, found |-> Len(recs), lines |-> recs]

SaveOverwriting(content, link, recs) == <<Block(link, recs)>>

SaveBlockPerRecord(content, link, recs) ==
    content \o [i \in 1..Len(recs) |-> Block(link, <<recs[i]>>)]

SaveSkippingEmpty(content, link, recs) ==
    IF recs = <<>> THEN content ELSE Append(content, Block(link, recs))

\* lines 320-336: open(out_path, "a") and one write
save_to_database(content, link, recs) == Append(content, Block(link, recs))

\* line 362: the for loop takes the next link
NextLink(i) == i + 1

\* ------------------------------------------------------------------ state
VARIABLES
    \* the environment of the run
    linksFile,      \* links.txt: [exists |-> FALSE] or [exists, lines]
    srv,            \* what the server sends: ids 1..cids, reply pages of at most
                    \* rbatch ids, at most rpages answers per reply stream
    files,          \* the credential files
    MAX_COMMENTS,   \* line 45
    BATCH_SIZE,     \* line 46
    db,             \* the content of OUTPUT_FILE: a sequence of blocks
    \* main
    pc,             \* position of the program
    links, cookies, ua,
    li,             \* index of the link the for loop of main is at
    \* fetch_comments
    aweme_id,
    cursor,         \* params["cursor"]
    all_comments, seen_ids, total_received,
    rest,           \* the entries of the page the for loop has not taken yet
    page_len,       \* len(comments) of the page being iterated
    data,           \* has_more and cursor of the page being iterated
    \* fetch_replies
    parent_cid,
    rcursor,        \* params["cursor"] of the reply request
    replies, rseen,
    rreq,           \* requests issued by the running fetch_replies call
    \* history of the run (read by the properties only)
    db0,            \* the content of OUTPUT_FILE when the run started
    hist,           \* the top-level responses of the current fetch_comments call
    replyCalls,     \* fetch_replies invocations of this call, per comment id
    firstAsk,       \* per comment id: whether the page entry it first occurred in
                    \* declared more replies than it inlined
    skipped,        \* <<id, declared more than inlined>> of every page entry
                    \* skipped as already seen
    itemReqs,       \* HTTP requests issued for the current link
    requests,       \* HTTP requests issued in the run
    cause,          \* why the top-level loop of the current call ended
    order,          \* the comment ids of the top-level pages taken by the current
                    \* call, in the order of their first occurrence
    rorder,         \* per parent id: the reply ids its reply pages held, in the
                    \* order of their first occurrence
    rlast,          \* the reply response just received: its position in its
                    \* stream and its fields as sent
    log,            \* one record per link main has finished with
    saveCalls       \* save_to_database calls per link index

env   == <<linksFile, srv, files, MAX_COMMENTS, BATCH_SIZE, db0>>
mainv == <<links, cookies, ua>>
topv  == <<aweme_id, cursor, all_comments, seen_ids, total_received, rest, page_len, data>>
repv  == <<parent_cid, rcursor, replies, rseen, rreq>>
itemh == <<hist, replyCalls, firstAsk, skipped, itemReqs, cause, order, rorder, rlast>>
vars  == <<env, db, pc, mainv, li, topv, repv, itemh, requests, log, saveCalls>>

\* ------------------------------------------------------------ the inputs
\* lines of links.txt
LineBlank == <<" ">>
LineVideo == <<"a", "/", "video", "/", "1", "2", "?", "a">>
LineTail  == <<" ", "a", "/", "2", "/">>
LineNoId  == <<"a", "/", "video", "/", "a">>
LinePool  == {LineBlank, LineVideo, LineTail, LineNoId}

LinksFiles ==
    {Absent} \cup {[exists |-> TRUE, lines |-> l] : l \in SeqsUpTo(LinePool, MaxLines)}

\* every link of up to MaxUrlLen tokens
UrlTokens == {"/", "?", "video", "1", "a"}
UrlPool == SeqsUpTo(UrlTokens, MaxUrlLen)

Cookie(n, v) == [blank |-> FALSE, eq |-> TRUE, name |-> n, value |-> v]
BlankPart    == [blank |-> TRUE, eq |-> FALSE, name |-> "", value |-> ""]

NoFiles ==
    [json1 |-> Absent, json2 |-> Absent, txt1 |-> Absent, txt2 |-> Absent,
     curl1 |-> Absent, curl2 |-> Absent, ua1 |-> Absent, ua2 |-> Absent]

\* cookies.json in the array shape, no User-Agent source
FilesJson ==
    [NoFiles EXCEPT !.json1 = [exists |-> TRUE, shape |-> "list",
                               items |-> <<[name |-> "sid", value |-> "1"]>>]]

\* only curl.txt, holding both headers
FilesCurl ==
    [NoFiles EXCEPT !.curl1 = [exists |-> TRUE, hasCookie |-> TRUE,
                               cookie |-> <<Cookie("sid", "2"), BlankPart>>,
                               hasUa |-> TRUE, ua |-> "UA-curl"]]

\* every cookie source exists and none yields a cookie
FilesEmpty ==
    [NoFiles EXCEPT !.json1 = [exists |-> TRUE, shape |-> "dict", items |-> <<>>],
                    !.json2 = [exists |-> TRUE, shape |-> "bad", items |-> <<>>],
                    !.txt1 = [exists |-> TRUE, parts |-> <<BlankPart>>],
                    !.curl2 = [exists |-> TRUE, hasCookie |-> FALSE, cookie |-> <<>>,
                               hasUa |-> TRUE, ua |-> "UA-curl"],
                    !.ua1 = [exists |-> TRUE, text |-> "UA-file"]]

CredScenarios == {NoFiles, FilesJson, FilesCurl, FilesEmpty}

\* The credential files the loader is tried on.  Every source holds its own
\* cookie value and User-Agent text, so that a result shows where it came from.
JsonList(v) ==
    [exists |-> TRUE, shape |-> "list", items |-> <<[name |-> "sid", value |-> v]>>]

JsonFiles(v) ==
    {Absent, JsonList(v),
     [exists |-> TRUE, shape |-> "dict", items |-> <<>>],
     [exists |-> TRUE, shape |-> "bad", items |-> <<>>]}

TxtHeader(v) == [exists |-> TRUE, parts |-> <<Cookie("sid", v), BlankPart>>]

TxtFiles(v) == {Absent, TxtHeader(v), [exists |-> TRUE, parts |-> <<BlankPart>>]}

CurlFile(hc, v, hu, u) ==
    [exists |-> TRUE, hasCookie |-> hc, cookie |-> IF hc THEN <<Cookie("sid", v)>> ELSE <<>>,
     hasUa |-> hu, ua |-> IF hu THEN u ELSE ""]

CurlFiles(v, u) == {Absent} \cup {CurlFile(hc, v, hu, u) : hc, hu \in BOOLEAN}

UaText(u) == [exists |-> TRUE, text |-> u]

CredFiles ==
    [json1 : JsonFiles("j1"), json2 : {Absent, JsonList("j2")},
     txt1 : TxtFiles("t1"), txt2 : {Absent, TxtHeader("t2")},
     curl1 : CurlFiles("c1", "UA-curl1"),
     curl2 : {Absent, CurlFile(TRUE, "c2", TRUE, "UA-curl2")},
     ua1 : {Absent, UaText("UA-file1"), UaText("")},
     ua2 : {Absent, UaText("UA-file2")}]

\* a block left in OUTPUT_FILE by an earlier run
OldBlock == Block(LineVideo, <<CommentObj("1")>>)

\* ------------------------------------------------------------------- Init
NoData == [has_more |-> FALSE, cursor |-> NoneV]
NoCalls == [c \in CidStrs |-> 0]
NoReplies == [c \in CidStrs |-> <<>>]
NoReply == [idx |-> 0, json |-> FALSE, empty |-> FALSE, has_more |-> FALSE, cursor |-> NoneV]
Unseen == [c \in CidStrs |-> "unseen"]

InitLocals ==
    /\ aweme_id = NoId /\ cursor = "0" /\ all_comments = <<>> /\ seen_ids = {}
    /\ total_received = 0 /\ rest = <<>> /\ page_len = 0 /\ data = NoData
    /\ parent_cid = "" /\ rcursor = "0" /\ replies = <<>> /\ rseen = {} /\ rreq = 0
    /\ hist = <<>> /\ replyCalls = NoCalls /\ firstAsk = Unseen /\ skipped = {}
    /\ itemReqs = 0 /\ cause = ""
    /\ order = <<>> /\ rorder = NoReplies /\ rlast = NoReply

InitRun ==
    /\ pc = "start"
    /\ links = <<>> /\ cookies = EmptyJar /\ ua = "" /\ li = 1
    /\ db0 = db
    /\ requests = 0 /\ log = <<>> /\ saveCalls = <<>>
    /\ InitLocals

\* a whole run: every links.txt, every credential scenario, a server with
\* one comment id, one id per reply page and two answers per reply stream
Init ==
    /\ linksFile \in LinksFiles
    /\ files \in CredScenarios
    /\ srv = [cids |-> 1, rbatch |-> 1, rpages |-> 2]
    /\ MAX_COMMENTS = 1
    /\ BATCH_SIZE = 1
    /\ db \in {<<>>, <<OldBlock>>}
    /\ InitRun

\* one link to fetch (followed by a line without an identifier), or no
\* links.txt: every MAX_COMMENTS and BATCH_SIZE, a server with two ids that
\* answers a reply stream once, with up to two ids
InitFetch ==
    /\ linksFile \in {Absent, [exists |-> TRUE, lines |-> <<LineVideo, LineNoId>>]}
    /\ files = FilesJson
    /\ srv = [cids |-> 2, rbatch |-> 2, rpages |-> 1]
    /\ MAX_COMMENTS \in 0..MaxM
    /\ BATCH_SIZE \in 1..MaxBatch
    /\ db = <<>>
    /\ InitRun

\* the same links.txt, MAX_COMMENTS = BATCH_SIZE = 2 (lines 45-46 set 2000 and
\* 50), a server with two ids whose reply streams have up to two responses of
\* up to two ids
InitReply ==
    /\ linksFile \in {Absent, [exists |-> TRUE, lines |-> <<LineVideo, LineNoId>>]}
    /\ files = FilesJson
    /\ srv = [cids |-> 2, rbatch |-> 2, rpages |-> 2]
    /\ MAX_COMMENTS = 2
    /\ BATCH_SIZE = 2
    /\ db = <<>>
    /\ InitRun

\* one line in links.txt, any link of the URL pool, against the server of
\* Init with single-response reply streams
InitUrl ==
    /\ linksFile \in {[exists |-> TRUE, lines |-> <<u>>] : u \in UrlPool}
    /\ files = FilesJson
    /\ srv = [cids |-> 1, rbatch |-> 1, rpages |-> 1]
    /\ MAX_COMMENTS = 1
    /\ BATCH_SIZE = 1
    /\ db = <<>>
    /\ InitRun

\* the loader alone: one link in links.txt, every combination of credential
\* files
InitCred ==
    /\ linksFile = [exists |-> TRUE, lines |-> <<LineVideo>>]
    /\ files \in CredFiles
    /\ srv = [cids |-> 1, rbatch |-> 1, rpages |-> 1]
    /\ MAX_COMMENTS = 1
    /\ BATCH_SIZE = 1
    /\ db = <<>>
    /\ InitRun

\* ---------------------------------------------------------------- actions
\* the ids of a page that are not known yet, each once, in page order
NewIds(ids, known) ==
    LET keep == {i \in 1..Len(ids) :
                    ids[i] \notin known /\ \A j \in 1..(i - 1) : ids[j] # ids[i]}
    IN  [k \in 1..Cardinality(keep) |->
            ids[CHOOSE i \in keep : Cardinality({j \in keep : j <= i}) = k]]

SeqIds(ids) == {ids[i] : i \in 1..Len(ids)}

\* the locals of fetch_comments and fetch_replies go out of scope
ResetLocals ==
    /\ aweme_id' = NoId /\ cursor' = "0" /\ all_comments' = <<>> /\ seen_ids' = {}
    /\ total_received' = 0 /\ rest' = <<>> /\ page_len' = 0 /\ data' = NoData
    /\ parent_cid' = "" /\ rcursor' = "0" /\ replies' = <<>> /\ rseen' = {} /\ rreq' = 0
    /\ hist' = <<>> /\ replyCalls' = NoCalls /\ firstAsk' = Unseen /\ skipped' = {}
    /\ itemReqs' = 0 /\ cause' = ""
    /\ order' = <<>> /\ rorder' = NoReplies /\ rlast' = NoReply

ResetReply ==
    /\ parent_cid' = "" /\ rcursor' = "0" /\ replies' = <<>> /\ rseen' = {} /\ rreq' = 0

\* what main has done with link li
Done(why, recs, at) ==
    [li |-> li, cause |-> why, collected |-> recs, at |-> at, reqs |-> itemReqs,
     first |-> IF hist = <<>> THEN "" ELSE hist[1].kind]

\* lines 343-360: the reason main returns before its loop, "" when it goes on
Fatal(lf, fs) ==
    IF ~lf.exists THEN "nofile"
    ELSE IF ReadLinks(lf.lines) = <<>> THEN "nolinks"
    ELSE IF load_cookies_and_ua(fs).raised THEN "nocreds"
    ELSE ""

\* lines 343-360, a fatal precondition: links.txt missing or without a
\* non-blank line, or load_cookies_and_ua raising
MainHalt ==
    /\ pc = "start"
    /\ Fatal(linksFile, files) # ""
    /\ pc' = "halted"
    /\ UNCHANGED <<env, db, mainv, li, topv, repv, itemh, requests, log, saveCalls>>

\* lines 343-360, the preconditions hold
MainBegin ==
    /\ pc = "start"
    /\ Fatal(linksFile, files) = ""
    /\ links' = ReadLinks(linksFile.lines)
    /\ cookies' = load_cookies_and_ua(files).jar
    /\ ua' = load_cookies_and_ua(files).ua
    /\ saveCalls' = [i \in 1..Len(ReadLinks(linksFile.lines)) |-> 0]
    /\ pc' = "loop"
    /\ UNCHANGED <<env, db, li, topv, repv, itemh, requests, log>>

\* lines 362-367: no identifier in the link, continue
SkipLink ==
    /\ pc = "loop" /\ li <= Len(links)
    /\ extract_aweme_id(links[li]) = NoId
    /\ log' = Append(log, Done("noid", <<>>, 0))
    /\ li' = NextLink(li)
    /\ UNCHANGED <<env, db, pc, mainv, topv, repv, itemh, requests, saveCalls>>

\* lines 362-371 and 251-262: build the session, enter fetch_comments
StartFetch ==
    /\ pc = "loop" /\ li <= Len(links)
    /\ extract_aweme_id(links[li]) # NoId
    /\ aweme_id' = extract_aweme_id(links[li])
    /\ cursor' = "0" /\ all_comments' = <<>> /\ seen_ids' = {} /\ total_received' = 0
    /\ pc' = "tl_request"
    /\ UNCHANGED <<env, db, mainv, li, rest, page_len, data, repv, itemh, requests,
                   log, saveCalls>>

\* lines 373-377: an exception of the try block is caught, nothing is saved
Caught(why) ==
    /\ log' = Append(log, Done(why, <<>>, 0))
    /\ li' = NextLink(li)
    /\ pc' = "loop"
    /\ requests' = requests + 1
    /\ ResetLocals
    /\ UNCHANGED <<env, db, mainv, saveCalls>>

\* lines 264-279: one request of the top-level loop and what the response
\* leads to before the for loop
TopRequest ==
    /\ pc = "tl_request"
    /\ \E r \in TopResponses(srv.cids, BATCH_SIZE) :
        LET kind == IF r.net = "error" THEN "error"
                    ELSE IF r.status = 403 THEN "403"
                    ELSE IF ~r.json THEN "badjson" ELSE "page"
            h == [kind |-> kind,
                  n |-> IF kind = "page" THEN Len(r.comments) ELSE 0,
                  has_more |-> kind = "page" /\ r.has_more]
            stop == IF Forbidden(r) THEN "403"
                    ELSE IF ~r.json THEN "badjson"
                    ELSE IF r.comments = <<>> THEN "empty" ELSE ""
        IN  IF r.net = "error" THEN Caught("neterror")
            ELSE /\ hist' = Append(hist, h)
                 /\ itemReqs' = itemReqs + 1
                 /\ requests' = requests + 1
                 /\ IF stop # ""
                    THEN /\ cause' = stop
                         /\ pc' = "returned"
                         /\ UNCHANGED <<rest, page_len, data>>
                    ELSE /\ rest' = r.comments
                         /\ page_len' = Len(r.comments)
                         /\ data' = [has_more |-> r.has_more, cursor |-> r.cursor]
                         /\ pc' = "tl_iter"
                         /\ cause' = cause
                 /\ order' = IF stop # "" THEN order
                              ELSE order \o NewIds([i \in 1..Len(r.comments) |->
                                                       Str(r.comments[i].cid)],
                                                   SeqIds(order))
                 /\ UNCHANGED <<env, db, mainv, li, aweme_id, cursor, all_comments,
                                seen_ids, total_received, repv, replyCalls, firstAsk,
                                skipped, rorder, rlast, log, saveCalls>>

\* whether a page entry declares more replies than it inlines, read off the
\* response itself (a missing count is 0)
DeclaresMore(c) ==
    (IF c.reply_comment_total.none THEN 0 ELSE c.reply_comment_total.val) > c.inline

\* lines 281-304: the for loop takes one entry of the page
ProcessComment ==
    /\ pc = "tl_iter" /\ rest # <<>>
    /\ LET c == Head(rest)
           cid == Str(c.cid)
       IN  /\ rest' = Tail(rest)
           /\ IF cid \in seen_ids
              THEN /\ skipped' = skipped \cup {<<cid, DeclaresMore(c)>>}
                   /\ UNCHANGED <<pc, all_comments, seen_ids, repv, replyCalls, firstAsk>>
              ELSE /\ seen_ids' = seen_ids \cup {cid}
                   /\ all_comments' = Append(all_comments, CommentObj(cid))
                   /\ firstAsk' = [firstAsk EXCEPT ![cid] =
                                       IF DeclaresMore(c) THEN "more" ELSE "notmore"]
                   /\ skipped' = skipped
                   /\ IF Triggers(c)
                      THEN /\ replyCalls' = [replyCalls EXCEPT ![cid] = @ + 1]
                           /\ parent_cid' = cid
                           /\ rcursor' = "0" /\ replies' = <<>> /\ rseen' = {}
                           /\ rreq' = 0
                           /\ pc' = "rp_request"
                      ELSE UNCHANGED <<pc, repv, replyCalls>>
    /\ rlast' = NoReply
    /\ UNCHANGED <<env, db, mainv, li, aweme_id, cursor, total_received, page_len, data,
                   hist, itemReqs, cause, order, rorder, requests, log, saveCalls>>

\* lines 306-313: the page is done
PageEnd ==
    /\ pc = "tl_iter" /\ rest = <<>>
    /\ total_received' = total_received + page_len
    /\ IF LoopEnds(data.has_more, total_received + page_len, MAX_COMMENTS)
       THEN /\ pc' = "returned"
            /\ cause' = IF ~data.has_more THEN "nomore" ELSE "max"
            /\ data' = NoData
            /\ UNCHANGED cursor
       ELSE /\ pc' = "tl_request"
            /\ cursor' = CursorOf(data)
            /\ UNCHANGED <<cause, data>>
    /\ page_len' = 0
    /\ rlast' = NoReply
    /\ UNCHANGED <<env, db, mainv, li, aweme_id, all_comments, seen_ids, rest, repv,
                   hist, replyCalls, firstAsk, skipped, itemReqs, order, rorder,
                   requests, log, saveCalls>>

\* lines 213-247 and 304: one request of fetch_replies; when the loop ends,
\* fetch_comments extends all_comments with the replies
ReplyRequest ==
    /\ pc = "rp_request"
    /\ \E r \in ReplyResponses(srv.cids, srv.rbatch, srv.rpages, rreq) :
        LET got == AddReplies(r.comments, replies, rseen, parent_cid)
        IN  IF r.net = "error" THEN Caught("neterror")
            ELSE /\ itemReqs' = itemReqs + 1
                 /\ requests' = requests + 1
                 /\ rlast' = [idx |-> rreq + 1, json |-> r.json,
                              empty |-> r.comments = <<>>, has_more |-> r.has_more,
                              cursor |-> r.cursor]
                 /\ rorder' = IF ~r.json THEN rorder
                               ELSE [rorder EXCEPT ![parent_cid] =
                                        @ \o NewIds([i \in 1..Len(r.comments) |->
                                                        Str(r.comments[i])], SeqIds(@))]
                 /\ IF ReplyUnusable(r)
                    THEN /\ all_comments' = Extend(all_comments, replies)
                         /\ pc' = "tl_iter"
                         /\ ResetReply
                    ELSE IF ReplyLast(r)
                    THEN /\ all_comments' = Extend(all_comments, got.replies)
                         /\ pc' = "tl_iter"
                         /\ ResetReply
                    ELSE /\ replies' = got.replies
                         /\ rseen' = got.seen_ids
                         /\ rcursor' = CursorOf(r)
                         /\ rreq' = rreq + 1
                         /\ UNCHANGED <<pc, all_comments, parent_cid>>
                 /\ UNCHANGED <<env, db, mainv, li, aweme_id, cursor, seen_ids,
                                total_received, rest, page_len, data, hist, replyCalls,
                                firstAsk, skipped, cause, order, log, saveCalls>>

\* lines 315 and 372: fetch_comments returns and main saves the list
Save ==
    /\ pc = "returned"
    /\ db' = save_to_database(db, links[li], all_comments)
    /\ saveCalls' = [saveCalls EXCEPT ![li] = @ + 1]
    /\ log' = Append(log, Done(cause, all_comments,
                               IF db' # db THEN Len(db') ELSE 0))
    /\ li' = NextLink(li)
    /\ pc' = "loop"
    /\ ResetLocals
    /\ UNCHANGED <<env, mainv, requests>>

\* line 362: no link is left
MainEnd ==
    /\ pc = "loop" /\ li > Len(links)
    /\ pc' = "done"
    /\ UNCHANGED <<env, db, mainv, li, topv, repv, itemh, requests, log, saveCalls>>

Next ==
    \/ MainHalt
    \/ MainBegin
    \/ SkipLink
    \/ StartFetch
    \/ TopRequest
    \/ ProcessComment
    \/ PageEnd
    \/ ReplyRequest
    \/ Save
    \/ MainEnd

Spec == Init /\ [][Next]_vars

SpecFetch == InitFetch /\ [][Next]_vars

SpecReply == InitReply /\ [][Next]_vars

\* The program is one thread that runs until main returns: a step that can
\* be taken is taken.
FairFetch == SpecFetch /\ WF_vars(Next)

SpecUrl == InitUrl /\ [][Next]_vars

\* lines 343-360: main up to the return of load_cookies_and_ua
NextCred ==
    \/ MainHalt
    \/ MainBegin

SpecCred == InitCred /\ [][NextCred]_vars

\* ------------------------------------------------------------- properties
NoDuplicateIds(recs) ==
    \A i, j \in 1..Len(recs) : i # j => recs[i].cid # recs[j].cid

\* C1: the list one fetch operation returns holds no two records with the same
\* comment id, for the replies of one parent (fetch_replies) and for the merged
\* list of fetch_comments.
C1_NoDuplicateIds ==
    /\ NoDuplicateIds(replies)
    /\ pc = "returned" => NoDuplicateIds(all_comments)

\* C2: fetch_comments never holds more than MAX_COMMENTS top-level records
\* (stated here for MAX_COMMENTS >= 1 only, where the ceiling allows a page).
C2_TopLevelWithinMax ==
    MAX_COMMENTS >= 1 => Len(TopLevel(all_comments)) <= MAX_COMMENTS

\* The server of C3 as the responses show it: every top-level response so far
\* was a page of the same size P >= 1.
PagedServer ==
    /\ hist # <<>>
    /\ \A i \in 1..Len(hist) :
        hist[i].kind = "page" /\ hist[i].n = hist[1].n /\ hist[i].n >= 1

\* the pages on which the server reported no further pages
NoMoreAt == {i \in 1..Len(hist) : ~hist[i].has_more}

CeilDiv(a, b) == (a + b - 1) \div b

\* C3 as stated: against a server that serves K pages of P comments and
\* reports no further pages on the K-th, fetch_comments returns after exactly
\* K top-level requests (the K-th page is the first to report no further
\* pages) with at most K*P top-level records (stated here for
\* MAX_COMMENTS >= 1 only).
C3_ExactlyKRequests ==
    (pc = "returned" /\ PagedServer /\ MAX_COMMENTS >= 1) =>
        /\ NoMoreAt # {}
        /\ Len(hist) = Min(NoMoreAt)
        /\ Len(TopLevel(all_comments)) <= Len(hist) * hist[1].n

\* C3 amended: fetch_comments returns after exactly
\* min(K, max(1, ceil(MAX_COMMENTS / P))) top-level requests, with at most
\* that many times P top-level records.
C3_RequestsMinKCeiling ==
    (pc = "returned" /\ PagedServer) =>
        LET ceiling == Max(1, CeilDiv(MAX_COMMENTS, hist[1].n))
        IN  /\ IF NoMoreAt # {}
               THEN Len(hist) = Min(NoMoreAt) /\ Len(hist) <= ceiling
               ELSE Len(hist) = ceiling
            /\ Len(TopLevel(all_comments)) <= Len(hist) * hist[1].n

\* two pages were requested and the second reported no further pages
C3_Witness ==
    pc = "returned" /\ PagedServer /\ Len(hist) = 2 /\ NoMoreAt = {2}

\* C4 as stated: when fetch_comments returns, fetch_replies has been invoked
\* exactly once for the id of every page entry that declares more replies than
\* it inlines, and never for the id of an entry that does not, the entries
\* skipped as duplicates included.
C4_OncePerDeclaringEntry ==
    pc = "returned" =>
        /\ \A c \in CidStrs :
            firstAsk[c] # "unseen" =>
                replyCalls[c] = IF firstAsk[c] = "more" THEN 1 ELSE 0
        /\ \A e \in skipped : replyCalls[e[1]] = IF e[2] THEN 1 ELSE 0

\* C4 amended: at every point of a fetch_comments call, fetch_replies has been
\* invoked exactly once for each comment id whose first processed page entry
\* declares more replies than it inlines, and never for any other id; a later
\* entry with an id already seen triggers nothing.
C4_OncePerFirstEntry ==
    \A c \in CidStrs : replyCalls[c] = IF firstAsk[c] = "more" THEN 1 ELSE 0

\* an id came twice, its first entry declaring more replies than inlined
C4_Witness ==
    /\ pc = "returned"
    /\ \E e \in skipped : firstAsk[e[1]] = "more" /\ replyCalls[e[1]] = 1
    /\ \E c \in CidStrs : firstAsk[c] = "notmore"

\* C5: a 403 on the first top-level request of a link makes fetch_comments
\* return the empty list without raising after that one request, and main goes
\* on with the remaining links.
C5_ForbiddenFirstPage ==
    /\ (hist # <<>> /\ hist[1].kind = "403") =>
           pc = "returned" /\ all_comments = <<>> /\ itemReqs = 1
    /\ \A i \in 1..Len(log) :
           log[i].first = "403" =>
               log[i].cause = "403" /\ log[i].collected = <<>> /\ log[i].reqs = 1
    /\ log # <<>> => pc # "halted"
    /\ pc = "done" => Len(log) = Len(links)

\* the first link met a 403 on its first page, and a later link was fetched
C5_Witness ==
    /\ pc = "done" /\ Len(log) = 2
    /\ log[1].first = "403"
    /\ log[2].reqs >= 1

Benign == {"empty", "nomore", "403"}

\* C6: when the top-level loop of a link ends by an empty page, by the server
\* reporting no further pages or by a 403, nothing is raised and exactly one
\* block is appended for the link, holding every record collected.
C6_BenignEndPersists ==
    \A i \in 1..Len(log) :
        log[i].cause \in Benign =>
            /\ saveCalls[log[i].li] = 1
            /\ log[i].at > Len(db0)
            /\ log[i].at <= Len(db)
            /\ db[log[i].at] = Block(links[log[i].li], log[i].collected)

\* a 403 on a later page: the records collected before it were saved
C6_Witness ==
    /\ log # <<>>
    /\ log[1].cause = "403" /\ log[1].reqs >= 2 /\ log[1].collected # <<>>
    /\ db[log[1].at].found = Len(log[1].collected)

\* C7: a link without an identifier, a network failure and an unparseable
\* top-level response each skip the link: no block is written for it.
C7_RecoverableErrorSkips ==
    \A i \in 1..Len(log) :
        log[i].cause \in {"noid", "neterror", "badjson"} =>
            log[i].at = 0 /\ saveCalls[log[i].li] = 0

\* links.txt has no non-blank line
NoNonBlankLine(lf) == \A i \in 1..Len(lf.lines) : \A k \in 1..Len(lf.lines[i]) : lf.lines[i][k] = " "

\* no credential source yields a non-empty cookie mapping
NoCookieSource(fs) ==
    /\ ~TruthyJar(_load_cookies_from_json(fs.json1))
    /\ ~TruthyJar(_load_cookies_from_json(fs.json2))
    /\ fs.txt1.exists => DOMAIN _parse_cookie_header(fs.txt1.parts) = {}
    /\ fs.txt2.exists => DOMAIN _parse_cookie_header(fs.txt2.parts) = {}
    /\ ~TruthyJar(_extract_from_curl_txt(fs.curl1).cookies)
    /\ ~TruthyJar(_extract_from_curl_txt(fs.curl2).cookies)

FatalPrecondition ==
    IF ~linksFile.exists THEN TRUE
    ELSE NoNonBlankLine(linksFile) \/ NoCookieSource(files)

\* C8: with links.txt missing or without a non-blank line, or with no cookie
\* source yielding a cookie, main halts before its loop: no HTTP request is
\* issued and nothing is written.
C8_FatalHaltsBeforeWork ==
    FatalPrecondition =>
        /\ pc \in {"start", "halted"}
        /\ requests = 0 /\ db = db0 /\ log = <<>>

\* main halted for want of cookies, links.txt and earlier output being there
C8_Witness ==
    /\ pc = "halted"
    /\ linksFile.exists /\ ~NoNonBlankLine(linksFile)
    /\ files.txt1.exists
    /\ db0 # <<>>

ValidLinks == {i \in 1..Len(links) : extract_aweme_id(links[i]) # NoId}

\* C9: save_to_database is called at most once per input line, and the output
\* grows by at most one block per line with a valid identifier.
C9_AtMostOneSavePerLine ==
    /\ \A i \in 1..Len(saveCalls) : saveCalls[i] <= 1
    /\ Len(db) <= Len(db0) + Cardinality(ValidLinks)

\* both of two lines were saved
C9_Witness ==
    /\ pc = "done" /\ Len(links) = 2
    /\ saveCalls = <<1, 1>>
    /\ Len(db) = Len(db0) + 2

\* C10: the output is append-only: every step leaves the previous content as
\* a prefix, a step that writes adds one block, for the link main is at, and
\* main moves forward through the links only.
C10_AppendOnly ==
    [][/\ IsPrefix(db, db')
       /\ li' >= li
       /\ db' # db => /\ Len(db') = Len(db) + 1
                      /\ db'[Len(db')].link = links[li]
                      /\ li' = li + 1]_vars

\* two different links were saved after the block of an earlier run
C10_Witness ==
    /\ pc = "done" /\ db0 # <<>>
    /\ Len(db) = 3
    /\ db[1] = db0[1]
    /\ db[2].link = links[1] /\ db[3].link = links[2] /\ links[1] # links[2]

IdsOf(recs) == {recs[i].cid : i \in 1..Len(recs)}

\* the record of the top-level comment a record of the list stands under: the
\* nearest record before position i that came from a top-level page
OwnerOf(recs, i) ==
    LET tops == {j \in 1..(i - 1) : ~IsReply(recs[j])}
    IN  IF tops = {} THEN "" ELSE recs[CHOOSE j \in tops : \A k \in tops : k <= j].cid

\* C11: every record the reply fetcher produced carries as parent_cid the id
\* of the top-level comment that triggered the fetch (the running fetch for
\* the records not yet merged, the top-level record they were appended under
\* for the merged ones), and the records made from top-level pages, one per id
\* of the dedup set, carry no parent_cid.
C11_RepliesCarryParent ==
    /\ \A i \in 1..Len(replies) :
           IsReply(replies[i]) /\ replies[i].parent_cid = parent_cid
    /\ \A i \in 1..Len(all_comments) :
           IsReply(all_comments[i]) =>
               all_comments[i].parent_cid = OwnerOf(all_comments, i)
    /\ IdsOf(TopLevel(all_comments)) = seen_ids
    /\ Len(TopLevel(all_comments)) = Cardinality(seen_ids)

\* the returned list holds two top-level records and, under the second, a
\* reply whose own id is the id of the first
C11_Witness ==
    /\ pc = "returned" /\ Len(all_comments) >= 3
    /\ ~IsReply(all_comments[1]) /\ ~IsReply(all_comments[2])
    /\ IsReply(all_comments[3])
    /\ all_comments[3].cid = all_comments[1].cid
    /\ all_comments[3].parent_cid = all_comments[2].cid

\* what a list of records shows of its order: the id of each record and
\* whether it is a reply
Shape(recs) == [i \in 1..Len(recs) |-> <<recs[i].cid, IsReply(recs[i])>>]

RECURSIVE Interleaved(_, _)
\* every top-level id of tops followed by the reply ids of its own stream
Interleaved(tops, reps) ==
    IF tops = <<>> THEN <<>>
    ELSE <<<<Head(tops), FALSE>>>>
         \o [k \in 1..Len(reps[Head(tops)]) |-> <<reps[Head(tops)][k], TRUE>>]
         \o Interleaved(Tail(tops), reps)

\* C12: the list fetch_comments returns is the top-level ids in the order of
\* their first occurrence in the pages, each followed at once by the replies
\* fetched for it, in the order its reply pages first held them; while the
\* call runs, the list is a prefix of that order.
C12_DiscoveryOrder ==
    /\ IsPrefix(Shape(all_comments), Interleaved(order, rorder))
    /\ pc = "returned" => Shape(all_comments) = Interleaved(order, rorder)

\* two top-level comments came as 2, 1; the first has the replies 2, 1 and
\* the second a reply as well
C12_Witness ==
    /\ pc = "returned"
    /\ order = <<"2", "1">>
    /\ rorder["2"] = <<"2", "1">> /\ rorder["1"] # <<>>
    /\ Len(all_comments) >= 5

Pairs(jar) == {<<n, jar[n]>> : n \in DOMAIN jar}

\* the cookies the cookies.json candidates and the cookies.txt candidates hold
JsonPairs(fs) ==
    UNION {IF _load_cookies_from_json(f).none THEN {}
           ELSE Pairs(_load_cookies_from_json(f).val) : f \in {fs.json1, fs.json2}}

TxtPairs(fs) ==
    UNION {IF f.exists THEN Pairs(_parse_cookie_header(f.parts)) ELSE {} :
               f \in {fs.txt1, fs.txt2}}

\* C13 as stated: whenever a cookies.json candidate and a cookies.txt candidate
\* both exist and load_cookies_and_ua returns, every cookie of the mapping is
\* one of the structured file and none is one of the raw header file,
\* whatever the two files hold.
C13_JsonExclusive ==
    (/\ pc = "loop"
     /\ files.json1.exists \/ files.json2.exists
     /\ files.txt1.exists \/ files.txt2.exists) =>
        /\ Pairs(cookies) \subseteq JsonPairs(files)
        /\ Pairs(cookies) \cap TxtPairs(files) = {}

\* C13 amended: when a cookies.json candidate yields a non-empty mapping, the
\* returned mapping is the one of the first such candidate and cookies.txt
\* contributes nothing; when none does (missing, malformed or without a
\* cookie) and a cookies.txt candidate yields a cookie, the returned mapping
\* is the one of the first such cookies.txt candidate.
C13_JsonFirstThenTxt ==
    pc = "loop" =>
        LET j1 == _load_cookies_from_json(files.json1)
            j2 == _load_cookies_from_json(files.json2)
            t1 == IF files.txt1.exists THEN _parse_cookie_header(files.txt1.parts)
                  ELSE EmptyJar
            t2 == IF files.txt2.exists THEN _parse_cookie_header(files.txt2.parts)
                  ELSE EmptyJar
        IN  IF TruthyJar(j1) THEN cookies = j1.val
            ELSE IF TruthyJar(j2) THEN cookies = j2.val
            ELSE IF DOMAIN t1 # {} THEN cookies = t1
            ELSE DOMAIN t2 # {} => cookies = t2

\* cookies.json and cookies.txt both hold a cookie; the loader returned the
\* one of cookies.json
C13_Witness ==
    /\ pc = "loop"
    /\ TruthyJar(_load_cookies_from_json(files.json1))
    /\ files.txt1.exists /\ TxtPairs(files) # {}
    /\ Pairs(cookies) \cap TxtPairs(files) = {}
    /\ Pairs(cookies) \subseteq JsonPairs(files)

\* The identifier of a link as C14 words it.  A link holds a video id when
\* "/video/" is followed by a digit somewhere; the id is the whole run of
\* digits after the leftmost such place.
VideoAt(u) ==
    {i \in 1..Len(u) : /\ i + 3 <= Len(u)
                       /\ SubSeq(u, i, i + 2) = <<"/", "video", "/">>
                       /\ u[i + 3] \in Digits}

VideoId(u) ==
    LET b == 3 + CHOOSE i \in VideoAt(u) : \A j \in VideoAt(u) : i <= j
        e == CHOOSE k \in b..Len(u) :
                 /\ \A m \in b..k : u[m] \in Digits
                 /\ k = Len(u) \/ u[k + 1] \notin Digits
    IN  SubSeq(u, b, e)

\* the last path segment: what lies before the first "?", without its
\* trailing slashes, after its last "/"
PathTail(u) ==
    LET q    == {i \in 1..Len(u) : u[i] = "?"}
        path == IF q = {} THEN u
                ELSE SubSeq(u, 1, (CHOOSE i \in q : \A j \in q : i <= j) - 1)
        ends == {i \in 1..Len(path) : path[i] # "/"}
        e    == IF ends = {} THEN 0 ELSE CHOOSE i \in ends : \A j \in ends : j <= i
        cuts == {i \in 1..e : path[i] = "/"}
        b    == IF cuts = {} THEN 0 ELSE CHOOSE i \in cuts : \A j \in cuts : j <= i
    IN  SubSeq(path, b + 1, e)

ExpectedId(u) ==
    IF VideoAt(u) # {} THEN VideoId(u)
    ELSE IF PathTail(u) # <<>> /\ \A i \in 1..Len(PathTail(u)) : PathTail(u)[i] \in Digits
    THEN PathTail(u)
    ELSE NoId

\* C14: when main takes a link, fetch_comments is entered with the digit run
\* after "/video/" whatever follows it, otherwise with the all-digit last path
\* segment (query and trailing slashes removed); a link with neither is
\* skipped: main moves to the next link, no request is issued,
\* save_to_database is not called and the output is left as it is.
C14_IdentifierOfLink ==
    [][(pc = "loop" /\ li <= Len(links)) =>
          IF ExpectedId(links[li]) = NoId
          THEN /\ pc' = "loop" /\ li' = li + 1
               /\ requests' = requests /\ db' = db /\ saveCalls' = saveCalls
               /\ Len(log') = Len(log) + 1 /\ log'[Len(log')].cause = "noid"
          ELSE /\ pc' = "tl_request" /\ li' = li
               /\ aweme_id' = ExpectedId(links[li])]_vars

\* the link "/video/1?" followed by text that is no digit: the identifier is
\* the 1 and a request has been made with it
C14_Witness ==
    /\ pc = "returned"
    /\ links = <<(<<"/", "video", "/", "1", "?">>)>>
    /\ aweme_id = <<"1">>
    /\ itemReqs >= 1

RECURSIVE RawTotal(_)
\* the raw sizes of the pages received, duplicates included
RawTotal(h) == IF h = <<>> THEN 0 ELSE Head(h).n + RawTotal(Tail(h))

\* C15: whatever the server sends, a fetch_comments call issues at most
\* max(1, MAX_COMMENTS) top-level requests: before each request after the
\* first, the running total is the raw size of the pages received, at least
\* one per page, and still below MAX_COMMENTS.
C15_RequestsWithinMax ==
    /\ Len(hist) <= Max(1, MAX_COMMENTS)
    /\ (pc = "tl_request" /\ hist # <<>>) =>
           /\ total_received = RawTotal(hist)
           /\ total_received >= Len(hist)
           /\ total_received < MAX_COMMENTS

\* the server reported further pages every time and sent the same id twice:
\* the call returned after two requests, MAX_COMMENTS being 2
C15_Witness ==
    /\ pc = "returned" /\ cause = "max" /\ MAX_COMMENTS = 2
    /\ Len(hist) = 2 /\ hist[1].has_more /\ hist[2].has_more
    /\ Len(TopLevel(all_comments)) = 1

\* The termination C15 concludes, under FairFetch: every fetch_comments call
\* that is entered ends, by its return or by the exception of a request.
C15_FetchEnds == (pc = "tl_request") ~> (pc \in {"returned", "loop"})

\* a reply response after which the reply loop is to end
Ending(x) == ~x.json \/ x.empty \/ ~x.has_more

CursorText(o) == IF o.none THEN "0" ELSE ToString(o.val)

\* C17: the request a top-level loop is about to issue carries "0" when it
\* is its first and the cursor of the page just iterated when not; the
\* request a reply loop is about to issue carries "0" when it is its first and
\* the cursor of the reply response just received when not; and a step of a
\* reply fetch that does not raise leaves the top-level cursor, dedup set and
\* running total as they are.
C17_CursorFollowsStream ==
    [][/\ pc' = "tl_request" =>
              cursor' = IF hist' = <<>> THEN "0" ELSE CursorText(data'.cursor)
       /\ pc' = "rp_request" =>
              rcursor' = IF rreq' = 0 THEN "0" ELSE CursorText(rlast'.cursor)
       /\ (pc = "tl_request" /\ pc' # "loop") => cursor' = cursor
       /\ (pc = "rp_request" /\ pc' # "loop") =>
              /\ cursor' = cursor /\ seen_ids' = seen_ids
              /\ total_received' = total_received]_vars

\* a second top-level request is due with the cursor 7 of the first page,
\* whose comment had a reply stream of two requests
C17_Witness ==
    /\ pc = "tl_request" /\ Len(hist) = 1
    /\ cursor = "7" /\ total_received = 1
    /\ \E c \in CidStrs : Len(rorder[c]) = 2

\* C18: an unparseable reply response returns fetch_replies with the replies
\* collected for the parent so far, which fetch_comments appends after the
\* parent; nothing is raised or logged, and the top-level loop stands where it
\* stood: the same entries of the page left to take, the same page data,
\* cursor, dedup set and running total.
C18_BadReplyEndsOneParent ==
    [][(pc = "rp_request" /\ rlast'.idx = rreq + 1 /\ ~rlast'.json) =>
          /\ pc' = "tl_iter"
          /\ all_comments' = all_comments \o replies
          /\ \A i \in 1..Len(replies) : replies[i].parent_cid = parent_cid
          /\ ~IsReply(all_comments[Len(all_comments)])
          /\ all_comments[Len(all_comments)].cid = parent_cid
          /\ UNCHANGED <<rest, data, page_len, cursor, seen_ids, total_received,
                         hist, log, db, li>>]_vars

\* the second response of a reply stream was unparseable: the reply of the
\* first stands last in the list and the page has another entry to take
C18_Witness ==
    /\ pc = "tl_iter"
    /\ rlast.idx = 2 /\ ~rlast.json
    /\ rest # <<>>
    /\ IsReply(all_comments[Len(all_comments)])

\* the User-Agent the User-Agent sources give by themselves: the first
\* ua.txt candidate that supplies a value, else the User-Agent header of the
\* first curl.txt candidate that has one, else the built-in default
ExpectedUa(fs) ==
    IF fs.ua1.exists /\ fs.ua1.text # "" THEN fs.ua1.text
    ELSE IF fs.ua2.exists /\ fs.ua2.text # "" THEN fs.ua2.text
    ELSE IF fs.curl1.exists /\ fs.curl1.hasUa THEN fs.curl1.ua
    ELSE IF fs.curl2.exists /\ fs.curl2.hasUa THEN fs.curl2.ua
    ELSE DefaultUA

BlankUaFile(fs) ==
    \/ fs.ua1.exists /\ fs.ua1.text = ""
    \/ fs.ua2.exists /\ fs.ua2.text = ""

\* C19: the User-Agent load_cookies_and_ua returns is the one its User-Agent
\* sources give by themselves, whichever source supplied the cookies (stated
\* here for the runs with a single curl.txt candidate and no blank ua.txt).
C19_UaFromUaSourcesOnly ==
    (pc = "loop" /\ ~files.curl2.exists /\ ~BlankUaFile(files)) =>
        ua = ExpectedUa(files)

\* C20: whenever load_cookies_and_ua returns, the cookie mapping is not empty
\* and the User-Agent is not the empty string.
C20_NonEmptyCookiesAndUa ==
    pc = "loop" => DOMAIN cookies # {} /\ ua # ""

====
